---------------------------- MODULE Spec2Model ----------------------------
(***************************************************************************)
(* Model of etc/copy-and-subst.mjs: the template expression resolver       *)
(* (get, applyModifiers, resolveExpression) and the tree copier            *)
(* (copyAndSubstitute, main).                                              *)
(*                                                                         *)
(* JavaScript strings are sequences of one-character strings.  JSON values *)
(* are tagged records [t, v]; an object keeps its members as a sequence of *)
(* <<key, value>> pairs in insertion order.                                *)
(***************************************************************************)
EXTENDS Integers, Sequences, FiniteSets, TLC

VARIABLES
    pc,        \* position of the run / of the function being applied
    data,      \* the substitution tree (JSON.parse of the data file)
    input,     \* the arguments of main, or of the function being applied
    out,       \* its result
    modifiers, \* applyModifiers: the modifier tokens
    i,         \* applyModifiers: the loop index
    result,    \* applyModifiers: the intermediate value
    fs,        \* the file system: path -> node
    stack,     \* copyAndSubstitute: pending (source, target) calls, depth first
    log        \* the I/O operations performed so far, in order

vars == <<pc, data, input, out, modifiers, i, result, fs, stack, log>>

None == "-"

----------------------------------------------------------------------------
(* String primitives of the JavaScript runtime.                            *)

IsWs(c) == c \in {" ", "\n", "\t"}

RECURSIVE TrimStart(_)
TrimStart(s) ==
    IF s # <<>> /\ IsWs(Head(s)) THEN TrimStart(Tail(s)) ELSE s

RECURSIVE TrimEnd(_)
TrimEnd(s) ==
    IF s # <<>> /\ IsWs(s[Len(s)]) THEN TrimEnd(SubSeq(s, 1, Len(s) - 1)) ELSE s

\* String.prototype.trim
Trim(s) == TrimEnd(TrimStart(s))

\* Index of the first occurrence of character c in s, 0 if none.
RECURSIVE IndexOfChar(_, _, _)
IndexOfChar(s, c, from) ==
    IF from > Len(s) THEN 0
    ELSE IF s[from] = c THEN from
    ELSE IndexOfChar(s, c, from + 1)

\* String.prototype.split with a one-character separator.
RECURSIVE Split(_, _)
Split(s, c) ==
    LET k == IndexOfChar(s, c, 1) IN
    IF k = 0 THEN <<s>>
    ELSE <<SubSeq(s, 1, k - 1)>> \o Split(SubSeq(s, k + 1, Len(s)), c)

\* Array.prototype.join
RECURSIVE Join(_, _)
Join(parts, sep) ==
    IF parts = <<>> THEN <<>>
    ELSE IF Len(parts) = 1 THEN parts[1]
    ELSE parts[1] \o sep \o Join(Tail(parts), sep)

\* Array.prototype.map(s => s.trim())
MapTrim(parts) == [k \in 1..Len(parts) |-> Trim(parts[k])]

StartsWithAt(s, p, k) ==
    /\ k + Len(p) - 1 <= Len(s)
    /\ SubSeq(s, k, k + Len(p) - 1) = p

\* String.prototype.endsWith
EndsWith(s, p) == Len(s) >= Len(p) /\ SubSeq(s, Len(s) - Len(p) + 1, Len(s)) = p

\* s.split(find).join(replace): every non-overlapping occurrence, left to right.
RECURSIVE SplitJoin(_, _, _)
SplitJoin(s, find, replace) ==
    IF s = <<>> \/ find = <<>> THEN s
    ELSE IF StartsWithAt(s, find, 1)
         THEN replace \o SplitJoin(SubSeq(s, Len(find) + 1, Len(s)), find, replace)
         ELSE <<Head(s)>> \o SplitJoin(Tail(s), find, replace)

IsDigit(c) == c \in {"0", "1", "2", "3", "4", "5", "6", "7", "8", "9"}

DigitVal(c) ==
    CASE c = "0" -> 0 [] c = "1" -> 1 [] c = "2" -> 2 [] c = "3" -> 3
      [] c = "4" -> 4 [] c = "5" -> 5 [] c = "6" -> 6 [] c = "7" -> 7
      [] c = "8" -> 8 [] c = "9" -> 9

DigitChar(d) == <<"0", "1", "2", "3", "4", "5", "6", "7", "8", "9">>[d + 1]

\* Number.prototype.toString for the naturals.
RECURSIVE NatStr(_)
NatStr(n) == IF n < 10 THEN <<DigitChar(n)>> ELSE NatStr(n \div 10) \o <<DigitChar(n % 10)>>

NumStr(n) == IF n < 0 THEN <<"-">> \o NatStr(0 - n) ELSE NatStr(n)

NaN == [nan |-> TRUE, n |-> 0]

RECURSIVE DigitsPrefix(_, _)
DigitsPrefix(s, acc) ==
    IF s # <<>> /\ IsDigit(Head(s)) THEN DigitsPrefix(Tail(s), 10 * acc + DigitVal(Head(s)))
    ELSE acc

\* parseInt(s, 10): leading whitespace skipped, optional sign, the longest prefix
\* of digits; NaN when there is no digit.
ParseInt(s) ==
    LET t == TrimStart(s)
        neg == t # <<>> /\ Head(t) = "-"
        u == IF t # <<>> /\ Head(t) \in {"-", "+"} THEN Tail(t) ELSE t
    IN  IF u = <<>> \/ ~IsDigit(Head(u)) THEN NaN
        ELSE [nan |-> FALSE, n |-> IF neg THEN 0 - DigitsPrefix(u, 0) ELSE DigitsPrefix(u, 0)]

\* isNaN
isNaN(x) == x.nan

UpperLetters ==
    <<"A", "B", "C", "D", "E", "F", "G", "H", "I", "J", "K", "L", "M", "N", "O", "P", "Q", "R", "S", "T", "U", "V", "W", "X", "Y", "Z">>
LowerLetters ==
    <<"a", "b", "c", "d", "e", "f", "g", "h", "i", "j", "k", "l", "m", "n", "o", "p", "q", "r", "s", "t", "u", "v", "w", "x", "y", "z">>

ToLowerChar(c) ==
    IF \E k \in 1..Len(UpperLetters) : UpperLetters[k] = c
    THEN LowerLetters[CHOOSE k \in 1..Len(UpperLetters) : UpperLetters[k] = c]
    ELSE c

ToUpperChar(c) ==
    IF \E k \in 1..Len(LowerLetters) : LowerLetters[k] = c
    THEN UpperLetters[CHOOSE k \in 1..Len(LowerLetters) : LowerLetters[k] = c]
    ELSE c

\* String.prototype.toLowerCase / toUpperCase (ASCII letters).
toLowerCase(s) == [k \in 1..Len(s) |-> ToLowerChar(s[k])]
toUpperCase(s) == [k \in 1..Len(s) |-> ToUpperChar(s[k])]

\* s.replace(/c/g, d)
ReplaceChar(s, c, d) == [k \in 1..Len(s) |-> IF s[k] = c THEN d ELSE s[k]]

----------------------------------------------------------------------------
(* JSON values.                                                            *)

Str(s) == [t |-> "string", v |-> s]
Num(n) == [t |-> "number", v |-> n]
Bool(b) == [t |-> "boolean", v |-> b]
Null == [t |-> "null", v |-> None]
Obj(members) == [t |-> "object", v |-> members]
Arr(elems) == [t |-> "array", v |-> elems]
\* A function of the runtime, reached through the prototype chain.
Fn(name) == [t |-> "function", v |-> name]
Undefined == [t |-> "undefined", v |-> None]

\* typeof
TypeOf(x) ==
    CASE x.t \in {"object", "array", "null"} -> "object"
      [] OTHER -> x.t

\* ToBoolean
Truthy(x) ==
    CASE x.t = "string" -> x.v # <<>>
      [] x.t = "number" -> x.v # 0
      [] x.t = "boolean" -> x.v
      [] x.t \in {"null", "undefined"} -> FALSE
      [] OTHER -> TRUE

\* Members every object and array inherits from its prototype; toString stands
\* for the members of Object.prototype, which are functions.
InheritedKeys == {<<"t", "o", "S", "t", "r", "i", "n", "g">>}

LengthKey == <<"l", "e", "n", "g", "t", "h">>

HasOwn(x, key) ==
    CASE x.t = "object" -> \E k \in 1..Len(x.v) : x.v[k][1] = key
      [] x.t = "array" -> \/ key = LengthKey
                          \/ \E k \in 1..Len(x.v) : NumStr(k - 1) = key
      [] OTHER -> FALSE

\* key in x, for x an object or an array: own and inherited members.
In(key, x) == HasOwn(x, key) \/ key \in InheritedKeys

\* x[key], for x an object or an array.
Member(x, key) ==
    IF HasOwn(x, key)
    THEN CASE x.t = "object" -> x.v[CHOOSE k \in 1..Len(x.v) : x.v[k][1] = key][2]
           [] x.t = "array" -> IF key = LengthKey THEN Num(Len(x.v))
                               ELSE x.v[CHOOSE k \in 1..Len(x.v) : NumStr(k - 1) = key]
    ELSE IF key \in InheritedKeys THEN Fn(key)
    ELSE Undefined

\* The reducer of get.
GetStep(acc, key) ==
    IF Truthy(acc) /\ TypeOf(acc) = "object" /\ In(key, acc)
    THEN Member(acc, key)
    ELSE Undefined

RECURSIVE Reduce(_, _)
Reduce(keys, acc) ==
    IF keys = <<>> THEN acc ELSE Reduce(Tail(keys), GetStep(acc, Head(keys)))

get(obj, path) == Reduce(Split(path, "."), obj)

----------------------------------------------------------------------------
(* JSON.stringify(value, null, indent) and String(value).                  *)

RECURSIVE Spaces(_)
Spaces(n) == IF n <= 0 THEN <<>> ELSE <<" ">> \o Spaces(n - 1)

\* The gap of JSON.stringify for a numeric space argument: min(10, space)
\* blanks, none when space < 1.
Gap(indent) == Spaces(IF indent > 10 THEN 10 ELSE indent)

EscapeChar(c) ==
    CASE c = "\"" -> <<"\\", "\"">>
      [] c = "\\" -> <<"\\", "\\">>
      [] c = "\n" -> <<"\\", "n">>
      [] c = "\t" -> <<"\\", "t">>
      [] OTHER -> <<c>>

RECURSIVE Escape(_)
Escape(s) == IF s = <<>> THEN <<>> ELSE EscapeChar(Head(s)) \o Escape(Tail(s))

\* QuoteJSONString
Quote(s) == <<"\"">> \o Escape(s) \o <<"\"">>

\* SerializeJSONProperty for a value of the data tree; cur is the current
\* indentation, gap the indentation unit.
RECURSIVE Serialize(_, _, _)
Serialize(x, gap, cur) ==
    LET inner == cur \o gap
        sep == IF gap = <<>> THEN <<",">> ELSE <<",", "\n">> \o inner
        wrap(open, close, parts) ==
            IF parts = <<>> THEN <<open, close>>
            ELSE IF gap = <<>> THEN <<open>> \o Join(parts, sep) \o <<close>>
            ELSE <<open, "\n">> \o inner \o Join(parts, sep) \o <<"\n">> \o cur \o <<close>>
    IN
    CASE x.t = "string" -> Quote(x.v)
      [] x.t = "number" -> NumStr(x.v)
      [] x.t = "boolean" -> IF x.v THEN <<"t", "r", "u", "e">> ELSE <<"f", "a", "l", "s", "e">>
      [] x.t = "null" -> <<"n", "u", "l", "l">>
      [] x.t = "array" ->
            wrap("[", "]", [k \in 1..Len(x.v) |-> Serialize(x.v[k], gap, inner)])
      [] x.t = "object" ->
            wrap("{", "}", [k \in 1..Len(x.v) |->
                Quote(x.v[k][1]) \o (IF gap = <<>> THEN <<":">> ELSE <<":", " ">>)
                    \o Serialize(x.v[k][2], gap, inner)])

\* JSON.stringify(x, null, indent): undefined for a function or undefined.
JSONstringify(x, indent) ==
    IF x.t \in {"function", "undefined"} THEN Undefined
    ELSE Str(Serialize(x, Gap(indent), <<>>))

FunctionText(name) ==
    <<"f", "u", "n", "c", "t", "i", "o", "n", " ">> \o name
        \o <<"(", ")", " ", "{", " ", "[", "n", "a", "t", "i", "v", "e", " ",
             "c", "o", "d", "e", "]", " ", "}">>

\* String(x)
RECURSIVE StringOf(_)
StringOf(x) ==
    CASE x.t = "string" -> x.v
      [] x.t = "number" -> NumStr(x.v)
      [] x.t = "boolean" -> IF x.v THEN <<"t", "r", "u", "e">> ELSE <<"f", "a", "l", "s", "e">>
      [] x.t = "null" -> <<"n", "u", "l", "l">>
      [] x.t = "undefined" -> <<"u", "n", "d", "e", "f", "i", "n", "e", "d">>
      [] x.t = "object" ->
            <<"[", "o", "b", "j", "e", "c", "t", " ", "O", "b", "j", "e", "c", "t", "]">>
      [] x.t = "array" ->
            Join([k \in 1..Len(x.v) |->
                    IF x.v[k].t \in {"null", "undefined"} THEN <<>> ELSE StringOf(x.v[k])],
                 <<",">>)
      [] x.t = "function" -> FunctionText(x.v)

----------------------------------------------------------------------------
(* applyModifiers.                                                         *)

JSON == <<"j", "s", "o", "n">>
LOWER == <<"l", "o", "w", "e", "r">>
UPPER == <<"u", "p", "p", "e", "r">>

\* A slip of the bound (i + 2 < modifiers.length): the last token is never taken.
TakesIndentOffByOne(mods, k) == k + 2 <= Len(mods) /\ ~isNaN(ParseInt(mods[k + 1]))

\* Whether the json token at index k (1-based) takes the next token as its
\* indentation: i + 1 < modifiers.length && !isNaN(parseInt(modifiers[i+1], 10)).
TakesIndent(mods, k) == k + 1 <= Len(mods) /\ ~isNaN(ParseInt(mods[k + 1]))

\* The cases '_' and '-' exchanged.
StringModifierSwapped(s, mod) ==
    CASE mod = LOWER -> toLowerCase(s)
      [] mod = UPPER -> toUpperCase(s)
      [] mod = <<"_">> -> ReplaceChar(s, "_", "-")
      [] mod = <<"-">> -> ReplaceChar(s, "-", "_")
      [] OTHER -> s

\* The string-specific modifiers (the switch).
StringModifier(s, mod) ==
    CASE mod = LOWER -> toLowerCase(s)
      [] mod = UPPER -> toUpperCase(s)
      [] mod = <<"_">> -> ReplaceChar(s, "-", "_")
      [] mod = <<"-">> -> ReplaceChar(s, "_", "-")
      [] OTHER -> s

\* One iteration of the loop at index k (1-based): the new result and the index
\* the next iteration starts at.
ModStep(res, mods, k) ==
    IF mods[k] = JSON
    THEN IF TakesIndent(mods, k)
         THEN [result |-> JSONstringify(res, ParseInt(mods[k + 1]).n), next |-> k + 2]
         ELSE [result |-> JSONstringify(res, 2), next |-> k + 1]
    ELSE IF TypeOf(res) = "string"
         THEN [result |-> Str(StringModifier(res.v, mods[k])), next |-> k + 1]
         ELSE [result |-> res, next |-> k + 1]

RECURSIVE ModLoop(_, _, _)
ModLoop(res, mods, k) ==
    IF k > Len(mods) THEN res
    ELSE ModLoop(ModStep(res, mods, k).result, mods, ModStep(res, mods, k).next)

applyModifiers(value, mods) == ModLoop(value, mods, 1)

----------------------------------------------------------------------------
(* resolveExpression.                                                      *)

\* const [fallbacksStr, ...defaultParts] = expr.split('=').map(s => s.trim())
ExprParts(expr) == MapTrim(Split(expr, "="))
FallbacksStr(expr) == ExprParts(expr)[1]
DefaultParts(expr) == Tail(ExprParts(expr))

\* defaultValue !== undefined
HasDefault(expr) == Len(DefaultParts(expr)) > 0

\* defaultParts.join('=').trim()
DefaultValue(expr) == Trim(Join(DefaultParts(expr), <<"=">>))

\* fallbacksStr.split('|').map(s => s.trim())
Fallbacks(expr) == MapTrim(Split(FallbacksStr(expr), "|"))

\* const [path, ...modifiers] = fallback.split(':').map(s => s.trim())
FallbackPath(fallback) == MapTrim(Split(fallback, ":"))[1]
FallbackModifiers(fallback) == Tail(MapTrim(Split(fallback, ":")))

\* The for loop over the fallbacks: the modified value of the first fallback
\* whose lookup is not undefined (the loop breaks there), else undefined.
RECURSIVE FallbackLoop(_, _)
FallbackLoop(fallbacks, substitutions) ==
    IF fallbacks = <<>> THEN Undefined
    ELSE LET value == get(substitutions, FallbackPath(Head(fallbacks))) IN
         IF value # Undefined
         THEN applyModifiers(value, FallbackModifiers(Head(fallbacks)))
         ELSE FallbackLoop(Tail(fallbacks), substitutions)

Ok(value) == [ok |-> TRUE, value |-> value, kind |-> None, variable |-> <<>>]
Failure(kind, variable) == [ok |-> FALSE, value |-> <<>>, kind |-> kind, variable |-> variable]

CouldNotBeResolved == "could not be resolved"
MustResolveToScalar == "must resolve to a string or number"

\* A test that only rejects a missing value.
IsDefined(innerValue) == innerValue # Undefined

\* typeof innerValue === 'string' || typeof innerValue === 'number'
IsStringOrNumber(innerValue) == TypeOf(innerValue) \in {"string", "number"}

\* defaultValue.replace(/@([^@]+)@/g, callback): the matches are found left to
\* right; the callback returns the string or number found at the trimmed inner
\* path and throws for anything else.
RECURSIVE DefaultReplace(_, _)
DefaultReplace(s, substitutions) ==
    IF s = <<>> THEN Ok(<<>>)
    ELSE LET q == IF Head(s) = "@" THEN IndexOfChar(s, "@", 2) ELSE 0 IN
         IF q >= 3
         THEN LET innerPath == SubSeq(s, 2, q - 1)
                  innerValue == get(substitutions, Trim(innerPath))
              IN  IF IsStringOrNumber(innerValue)
                  THEN LET rest == DefaultReplace(SubSeq(s, q + 1, Len(s)), substitutions) IN
                       IF rest.ok THEN Ok(StringOf(innerValue) \o rest.value) ELSE rest
                  ELSE Failure(MustResolveToScalar, <<"@">> \o Trim(innerPath) \o <<"@">>)
         ELSE LET rest == DefaultReplace(Tail(s), substitutions) IN
              IF rest.ok THEN Ok(<<Head(s)>> \o rest.value) ELSE rest

\* The outcome of resolveExpression: Ok(string) or the Error thrown.  The
\* message's expression and source path are those of the call.
resolveExpression(expr, substitutions) ==
    LET resolvedValue == FallbackLoop(Fallbacks(expr), substitutions) IN
    IF resolvedValue = Undefined
    THEN IF HasDefault(expr)
         THEN DefaultReplace(DefaultValue(expr), substitutions)
         ELSE Failure(CouldNotBeResolved, Join(Fallbacks(expr), <<" ", "|", " ">>))
    ELSE Ok(StringOf(resolvedValue))

----------------------------------------------------------------------------
(* Inputs: data trees, paths, modifier tokens and expressions.             *)

MaxSegments == 2
MaxModifiers == 3
MaxFallbacks == 2
MaxPieces == 2

\* Sequences over S of length 1..n.
RECURSIVE SeqsUpTo(_, _)
SeqsUpTo(S, n) ==
    IF n = 0 THEN {}
    ELSE {<<x>> : x \in S} \cup SeqsUpTo(S, n - 1)
         \cup {<<x>> \o r : x \in S, r \in SeqsUpTo(S, n - 1)}

RECURSIVE Concat(_)
Concat(parts) == IF parts = <<>> THEN <<>> ELSE Head(parts) \o Concat(Tail(parts))

User == Obj(<< <<<<"n">>, Str(<<"A", "n", "n">>)>>, <<<<"k">>, Num(7)>> >>)

\* A configuration document: strings (one empty), a zero, a false, a null, a
\* nested mapping, an array and a member whose key is the empty string.
Config ==
    Obj(<< <<<<"a">>, Str(<<>>)>>, <<<<"b">>, Str(<<"x">>)>>, <<<<"n">>, Num(0)>>,
           <<<<"f">>, Bool(FALSE)>>, <<<<"z">>, Null>>, <<<<"s">>, Str(<<"F", "o", "o", "-", "B", "a", "r">>)>>,
           <<<<"u">>, User>>, <<<<"l">>, Arr(<<Str(<<"p">>), Num(3)>>)>>,
           <<<<>>, Str(<<"e">>)>> >>)

\* A document with only the second fallback of "a | b".
OnlyB == Obj(<< <<<<"b">>, Str(<<"y">>)>> >>)

\* A document whose root is an array.
RootArray == Arr(<<Str(<<"q">>)>>)

DataTrees == {Config, OnlyB, RootArray}

Segments == {<<"a">>, <<"b">>, <<"u">>, <<"n">>, <<"l">>, <<"z">>, <<"0">>, <<>>, LengthKey, <<"t", "o", "S", "t", "r", "i", "n", "g">>, <<"m">>}

Paths == {Join(segs, <<".">>) : segs \in SeqsUpTo(Segments, MaxSegments)}

ModifierTokens == {JSON, LOWER, UPPER, <<"_">>, <<"-">>, <<"4">>, <<"0">>, <<"z", "z">>}

ModifierLists == {<<>>} \cup SeqsUpTo(ModifierTokens, MaxModifiers)

ModifierValues ==
    {Str(<<"F", "o", "o", "-", "B", "a", "r">>), Str(<<"a", "_", "B">>), Num(7), Bool(TRUE), Null, User,
     Arr(<<Str(<<"p">>), Num(3)>>), Fn(<<"t", "o", "S", "t", "r", "i", "n", "g">>)}

\* Fallbacks: defined and falsy (a, n, f), defined (b, s, u.n), missing (m),
\* with and without modifiers, and a member found on the prototype.
FallbackTexts ==
    {<<"a">>, <<"b">>, <<"m">>, <<"n">>, <<"f">>, <<"s", ":", "l", "o", "w", "e", "r", ":", "_">>, <<"m", ":", "u", "p", "p", "e", "r">>, <<"u", ".", "n">>, <<"t", "o", "S", "t", "r", "i", "n", "g", ":", "j", "s", "o", "n">>}

FallbackSpecs == {Join(fbs, <<" ", "|", " ">>) : fbs \in SeqsUpTo(FallbackTexts, MaxFallbacks)}

DefaultTexts ==
    {<<>>,
     <<"d">>,
     <<"a", " ", "=", " ", "b">>,
     <<" ", "c", "=", "d", " ">>,
     <<"H", ",", " ", "@", "u", ".", "n", "@">>,
     <<"@", "u", "@">>}

\* fallback ( '|' fallback )* ( '=' defaultText )?
Expressions ==
    FallbackSpecs \cup {f \o <<" ", "=">> \o d : f \in FallbackSpecs, d \in DefaultTexts}

\* Pieces of a default text: literals, tokens of each kind of value, a lone at sign.
DefaultPieces ==
    {<<"d", " ">>,
     <<"@", "u", ".", "n", "@">>,
     <<"@", " ", "n", " ", "@">>,
     <<"@", "f", "@">>,
     <<"@", "z", "@">>,
     <<"@", "u", "@">>,
     <<"@", "l", "@">>,
     <<"@", "m", "@">>,
     <<"@">>,
     <<"=">>}

DefaultTextsOfPieces == {<<>>} \cup {Concat(ps) : ps \in SeqsUpTo(DefaultPieces, MaxPieces)}

DefaultExpressions ==
    {f \o <<" ", "=", " ">> \o d : f \in {<<"m">>, <<"m", " ", "|", " ", "q", ":", "u", "p", "p", "e", "r">>, <<"b">>}, d \in DefaultTextsOfPieces}

----------------------------------------------------------------------------
(* get, applyModifiers and resolveExpression applied to the inputs above.    *)

Idle ==
    /\ modifiers = <<>> /\ i = 0 /\ result = Undefined
    /\ fs = <<>> /\ stack = <<>> /\ log = <<>>

InitGet ==
    /\ pc = "get" /\ data \in DataTrees /\ input \in Paths
    /\ out = Undefined /\ Idle

Get ==
    /\ pc = "get"
    /\ out' = get(data, input)
    /\ pc' = "done"
    /\ UNCHANGED <<data, input, modifiers, i, result, fs, stack, log>>

SpecGet == InitGet /\ [][Get]_vars

InitModifiers ==
    /\ pc = "modify" /\ data = Undefined
    /\ input \in ModifierValues /\ result = input
    /\ modifiers \in ModifierLists /\ i = 1
    /\ out = Undefined
    /\ fs = <<>> /\ stack = <<>> /\ log = <<>>

\* One iteration of the loop of applyModifiers.
Modify ==
    /\ pc = "modify" /\ i <= Len(modifiers)
    /\ result' = ModStep(result, modifiers, i).result
    /\ i' = ModStep(result, modifiers, i).next
    /\ UNCHANGED <<pc, data, input, out, modifiers, fs, stack, log>>

\* return result
Return ==
    /\ pc = "modify" /\ i > Len(modifiers)
    /\ out' = result
    /\ pc' = "done"
    /\ UNCHANGED <<data, input, modifiers, i, result, fs, stack, log>>

NextModifiers == Modify \/ Return

SpecModifiers == InitModifiers /\ [][NextModifiers]_vars

NotRun == Failure(None, <<>>)

InitResolve ==
    /\ pc = "resolve" /\ data \in {Config, OnlyB} /\ input \in Expressions
    /\ out = NotRun /\ Idle

InitDefault ==
    /\ pc = "resolve" /\ data \in {Config, OnlyB} /\ input \in DefaultExpressions
    /\ out = NotRun /\ Idle

Resolve ==
    /\ pc = "resolve"
    /\ out' = resolveExpression(input, data)
    /\ pc' = "done"
    /\ UNCHANGED <<data, input, modifiers, i, result, fs, stack, log>>

SpecResolve == InitResolve /\ [][Resolve]_vars

SpecDefault == InitDefault /\ [][Resolve]_vars

----------------------------------------------------------------------------
(* The template pattern /{{\s*([^}]+?)\s*}}/g and the replacement passes.   *)

\* The match of the pattern that starts at index p, if there is one.  Between
\* the braces only characters other than } can be matched, so the closing
\* braces are the first } after the opening ones; the group is the text between
\* without its surrounding whitespace (one whitespace character when there is
\* nothing else, since the group cannot be empty).
MatchAt(content, p) ==
    LET q == IndexOfChar(content, "}", p + 2)
        found == /\ StartsWithAt(content, <<"{", "{">>, p)
                 /\ q >= p + 3
                 /\ StartsWithAt(content, <<"}", "}">>, q)
        inner == SubSeq(content, p + 2, q - 1)
    IN  [found |-> found,
         last |-> q + 1,
         fullMatch |-> IF found THEN SubSeq(content, p, q + 1) ELSE <<>>,
         expr |-> IF ~found THEN <<>>
                  ELSE IF Trim(inner) = <<>> THEN <<inner[Len(inner)]>>
                  ELSE Trim(inner)]

\* content.matchAll(regex): the matches from index p on, left to right, each
\* search resuming after the previous match.
RECURSIVE MatchAll(_, _)
MatchAll(content, p) ==
    IF p > Len(content) THEN <<>>
    ELSE IF MatchAt(content, p).found
         THEN <<MatchAt(content, p)>> \o MatchAll(content, MatchAt(content, p).last + 1)
         ELSE MatchAll(content, p + 1)

\* The first loop: replacements.push({find, replace}) per match; the Error of
\* the first expression that does not resolve is thrown.
RECURSIVE Replacements(_, _)
Replacements(matches, substitutions) ==
    IF matches = <<>> THEN [ok |-> TRUE, list |-> <<>>, error |-> NotRun]
    ELSE LET replacement == resolveExpression(Head(matches).expr, substitutions) IN
         IF ~replacement.ok THEN [ok |-> FALSE, list |-> <<>>, error |-> replacement]
         ELSE LET rest == Replacements(Tail(matches), substitutions) IN
              IF ~rest.ok THEN rest
              ELSE [ok |-> TRUE,
                    list |-> <<[find |-> Head(matches).fullMatch,
                                replace |-> replacement.value]>> \o rest.list,
                    error |-> NotRun]

\* The second loop: content = content.split(rep.find).join(rep.replace) for each
\* replacement in turn.
RECURSIVE ApplyReplacements(_, _)
ApplyReplacements(content, reps) ==
    IF reps = <<>> THEN content
    ELSE ApplyReplacements(SplitJoin(content, Head(reps).find, Head(reps).replace), Tail(reps))

\* The content written for a template, or the Error thrown before any write.
Substitute(content, substitutions) ==
    LET reps == Replacements(MatchAll(content, 1), substitutions) IN
    IF reps.ok THEN Ok(ApplyReplacements(content, reps.list)) ELSE reps.error

----------------------------------------------------------------------------
(* The file system.                                                        *)

Directory(entries) == [kind |-> "dir", entries |-> entries, content |-> <<>>]
File(content) == [kind |-> "file", entries |-> <<>>, content |-> content]

Root == <<"/">>
TMPL == <<".", "t", "m", "p", "l">>

RECURSIVE LastIndexOfChar(_, _, _)
LastIndexOfChar(s, c, from) ==
    IF from < 1 THEN 0
    ELSE IF s[from] = c THEN from
    ELSE LastIndexOfChar(s, c, from - 1)

\* path.dirname and path.basename of an absolute path
dirname(p) ==
    LET k == LastIndexOfChar(p, "/", Len(p)) IN
    IF k <= 1 THEN Root ELSE SubSeq(p, 1, k - 1)
basename(p) == SubSeq(p, LastIndexOfChar(p, "/", Len(p)) + 1, Len(p))

\* path.join(dir, file)
join(dir, file) == IF dir = Root THEN dir \o file ELSE dir \o <<"/">> \o file

IsDir(f, p) == p \in DOMAIN f /\ f[p].kind = "dir"
IsFile(f, p) == p \in DOMAIN f /\ f[p].kind = "file"

\* f with node n at path p, listed in its parent directory.
Put(f, p, n) ==
    LET parent == dirname(p)
        g == [x \in DOMAIN f \cup {p} |-> IF x = p THEN n ELSE f[x]]
    IN  IF p = Root \/ \E k \in 1..Len(f[parent].entries) : f[parent].entries[k] = basename(p)
        THEN g
        ELSE [g EXCEPT ![parent] = Directory(Append(f[parent].entries, basename(p)))]

\* fs.mkdir(p, {recursive: true}) fails when p or an ancestor is a file.
RECURSIVE MkdirFails(_, _)
MkdirFails(f, p) ==
    IF p \in DOMAIN f THEN f[p].kind = "file"
    ELSE MkdirFails(f, dirname(p))

RECURSIVE Mkdir(_, _)
Mkdir(f, p) ==
    IF p \in DOMAIN f THEN f
    ELSE Put(Mkdir(f, dirname(p)), p, Directory(<<>>))

\* fs.writeFile and fs.copyFile create or overwrite the file at p.
WriteFile(f, p, content) == Put(f, p, File(content))

\* The contents of the files of f.
Files(f) == [p \in {x \in DOMAIN f : f[x].kind = "file"} |-> f[p].content]

----------------------------------------------------------------------------
(* copyAndSubstitute and main.                                             *)

Event(op, source, target, path, content) ==
    [op |-> op, source |-> source, target |-> target, path |-> path, content |-> content]

\* const finalTargetPath = target.endsWith('.tmpl') ? target.slice(0, -5) : target
FinalTargetPath(target) ==
    IF EndsWith(target, TMPL) THEN SubSeq(target, 1, Len(target) - 5) ELSE target

\* An Error caught per entry: the run goes on with the next pending call.
ContinueAfterThrow(st) == [pc |-> "copy", stack |-> IF st = <<>> THEN st ELSE Tail(st)]

\* An Error thrown inside copyAndSubstitute reaches the catch of main, which
\* prints it and exits with status 1: the pending calls are abandoned.
AfterThrow(st) == [pc |-> "exit1", stack |-> <<>>]

Throw(error, events) ==
    /\ pc' = AfterThrow(stack).pc
    /\ stack' = AfterThrow(stack).stack
    /\ out' = error
    /\ log' = log \o events \o <<Event("stderr", <<>>, <<>>, <<>>, <<>>)>>

\* main: the arguments, then JSON.parse of the data file, then the copy.
Main ==
    /\ pc = "main"
    /\ IF input.source = <<>> \/ input.jsonFile = <<>> \/ input.target = <<>>
       THEN /\ pc' = "exit1"
            /\ out' = Failure("usage", <<>>)
            /\ log' = log \o <<Event("stderr", <<>>, <<>>, <<>>, <<>>)>>
            /\ stack' = stack
       ELSE IF ~input.jsonValid
       THEN Throw(Failure("JSON.parse", <<>>), <<>>)
       ELSE /\ pc' = "copy"
            /\ stack' = <<[source |-> input.source, target |-> input.target]>>
            /\ UNCHANGED <<out, log>>
    /\ UNCHANGED <<data, input, modifiers, i, result, fs>>

\* copyAndSubstitute on a directory: mkdir, then one call per entry, in the
\* order of readdir, each completed before the next starts.
CopyDirectory ==
    /\ pc = "copy" /\ stack # <<>>
    /\ LET source == Head(stack).source
           target == Head(stack).target
           entries == fs[source].entries
       IN  /\ IsDir(fs, source)
           /\ IF MkdirFails(fs, target)
              THEN /\ Throw(Failure("mkdir", target), <<Event("stat", source, target, source, <<>>)>>)
                   /\ fs' = fs
              ELSE /\ fs' = Mkdir(fs, target)
                   /\ stack' = [k \in 1..Len(entries) |->
                                   [source |-> join(source, entries[k]),
                                    target |-> join(target, entries[k])]]
                               \o Tail(stack)
                   /\ log' = log \o <<Event("stat", source, target, source, <<>>),
                                      Event("mkdir", source, target, target, <<>>),
                                      Event("readdir", source, target, source, <<>>)>>
                   /\ UNCHANGED <<pc, out>>
    /\ UNCHANGED <<data, input, modifiers, i, result>>

\* copyAndSubstitute on a file whose source name ends with .tmpl.
CopyTemplate ==
    /\ pc = "copy" /\ stack # <<>>
    /\ LET source == Head(stack).source
           target == Head(stack).target
           finalTargetPath == FinalTargetPath(target)
           made == Mkdir(fs, dirname(finalTargetPath))
           content == Substitute(fs[source].content, data)
           before == <<Event("stat", source, target, source, <<>>),
                       Event("mkdir", source, target, dirname(finalTargetPath), <<>>),
                       Event("readFile", source, target, source, fs[source].content)>>
       IN  /\ IsFile(fs, source) /\ EndsWith(source, TMPL)
           /\ IF MkdirFails(fs, dirname(finalTargetPath))
              THEN /\ Throw(Failure("mkdir", dirname(finalTargetPath)),
                            <<Event("stat", source, target, source, <<>>)>>)
                   /\ fs' = fs
              ELSE IF ~content.ok
              THEN /\ Throw(content, before)
                   /\ fs' = made
              ELSE IF IsDir(made, finalTargetPath)
              THEN /\ Throw(Failure("writeFile", finalTargetPath), before)
                   /\ fs' = made
              ELSE /\ fs' = WriteFile(made, finalTargetPath, content.value)
                   /\ stack' = Tail(stack)
                   /\ log' = log \o before
                        \o <<Event("writeFile", source, target, finalTargetPath, content.value)>>
                   /\ UNCHANGED <<pc, out>>
    /\ UNCHANGED <<data, input, modifiers, i, result>>

\* copyAndSubstitute on any other file: fs.copyFile(source, finalTargetPath).
CopyPlain ==
    /\ pc = "copy" /\ stack # <<>>
    /\ LET source == Head(stack).source
           target == Head(stack).target
           finalTargetPath == FinalTargetPath(target)
           made == Mkdir(fs, dirname(finalTargetPath))
           before == <<Event("stat", source, target, source, <<>>),
                       Event("mkdir", source, target, dirname(finalTargetPath), <<>>)>>
       IN  /\ IsFile(fs, source) /\ ~EndsWith(source, TMPL)
           /\ IF MkdirFails(fs, dirname(finalTargetPath))
              THEN /\ Throw(Failure("mkdir", dirname(finalTargetPath)),
                            <<Event("stat", source, target, source, <<>>)>>)
                   /\ fs' = fs
              ELSE IF IsDir(made, finalTargetPath)
              THEN /\ Throw(Failure("copyFile", finalTargetPath), before)
                   /\ fs' = made
              ELSE /\ fs' = WriteFile(made, finalTargetPath, fs[source].content)
                   /\ stack' = Tail(stack)
                   /\ log' = log \o before
                        \o <<Event("copyFile", source, target, finalTargetPath, fs[source].content)>>
                   /\ UNCHANGED <<pc, out>>
    /\ UNCHANGED <<data, input, modifiers, i, result>>

\* The copy returned: main prints the confirmation and the process ends with
\* status 0.
Finish ==
    /\ pc = "copy" /\ stack = <<>>
    /\ pc' = "exit0"
    /\ log' = log \o <<Event("stdout", <<>>, <<>>, <<>>, <<>>)>>
    /\ UNCHANGED <<data, input, out, modifiers, i, result, fs, stack>>

Next == Main \/ CopyDirectory \/ CopyTemplate \/ CopyPlain \/ Finish

----------------------------------------------------------------------------
(* The runs of the copier: a source tree under /s, a target under /t.       *)

MaxEntries == 3

\* A document whose value for a is the text of another expression.
Nested == Obj(<< <<<<"a">>, Str(<<"{", "{", "b", "}", "}">>)>>, <<<<"b">>, Str(<<"x">>)>> >>)

TemplateContents ==
    {<<"v", "=", "{", "{", "b", "}", "}">>,
     <<"{", "{", " ", "a", " ", "}", "}", "{", "{", "b", "}", "}">>,
     <<"{", "{", "b", "}", "}", "{", "{", " ", "m", " ", "}", "}">>,
     <<"{", "{", " ", "m", " ", "=", " ", "d", " ", "}", "}", "{", "{", "b", "}", "}", "{", "{", "b", "}", "}">>,
     <<"{", "{", " ", "m", " ", "=", " ", "@", "a", "@", " ", "}", "}">>,
     <<"{", "{", " ", "a", " ", "}">>}

Old == <<"o", "l", "d">>

\* The entries a source directory may hold: a plain file, a template, a plain
\* file named like the template's output, and a directory with a template.
EntryNames == {<<"p">>, <<"t", ".", "t", "m", "p", "l">>, <<"t">>, <<"d">>}

\* The orders readdir may list them in.
Listings ==
    {<<>>} \cup {l \in SeqsUpTo(EntryNames, MaxEntries) :
                    \A j, k \in 1..Len(l) : j # k => l[j] # l[k]}

RECURSIVE AddEntries(_, _, _)
AddEntries(f, listing, content) ==
    IF listing = <<>> THEN f
    ELSE LET name == Head(listing)
             path == join(<<"/", "s">>, name)
             g == CASE name = <<"p">> -> Put(f, path, File(<<"{", "{", "b", "}", "}">>))
                    [] name = <<"t", ".", "t", "m", "p", "l">> -> Put(f, path, File(content))
                    [] name = <<"t">> -> Put(f, path, File(<<"p", "l", "a", "i", "n">>))
                    [] name = <<"d">> -> Put(Put(f, path, Directory(<<>>)),
                                         join(path, <<"e", ".", "t", "m", "p", "l">>), File(<<"<", "{", "{", " ", "b", " ", "}", "}", ">">>))
         IN  AddEntries(g, Tail(listing), content)

\* The source tree, and under /t either nothing or an earlier output of t.tmpl.
InitialFs(listing, content, existing) ==
    LET root == (Root :> Directory(<<>>))
        source == AddEntries(Put(root, <<"/", "s">>, Directory(<<>>)), listing, content)
    IN  IF existing
        THEN Put(Put(source, <<"/", "t">>, Directory(<<>>)), <<"/", "t", "/", "t">>, File(Old))
        ELSE source

\* The arguments of a run: the tree, or one file of it under another name.
Arguments(f) ==
    {[source |-> <<"/", "s">>, jsonFile |-> <<"c", ".", "j", "s", "o", "n">>, target |-> t, jsonValid |-> v] :
        t \in {<<"/", "t">>, <<>>}, v \in BOOLEAN}
    \cup {[source |-> src, jsonFile |-> <<"c", ".", "j", "s", "o", "n">>, target |-> t, jsonValid |-> TRUE] :
            src \in {x \in {<<"/", "s", "/", "t", ".", "t", "m", "p", "l">>, <<"/", "s", "/", "p">>} : x \in DOMAIN f},
            t \in {<<"/", "t", "/", "o", ".", "x", "m", "l">>, <<"/", "t", "/", "o", ".", "t", "m", "p", "l">>}}

Init ==
    /\ pc = "main"
    /\ data \in {Config, Nested}
    /\ \E listing \in Listings, content \in TemplateContents, existing \in BOOLEAN :
          /\ fs = InitialFs(listing, content, existing)
          /\ input \in Arguments(fs)
    /\ out = Ok(<<>>)
    /\ modifiers = <<>> /\ i = 0 /\ result = Undefined
    /\ stack = <<>> /\ log = <<>>

Spec == Init /\ [][Next]_vars

----------------------------------------------------------------------------
(* Properties.                                                             *)

\* The text the pattern matches replaced occurrence by occurrence, each by the
\* value of its own expression, reading only the original content.
RECURSIVE PositionalSubstitute(_, _, _)
PositionalSubstitute(content, substitutions, p) ==
    IF p > Len(content) THEN <<>>
    ELSE IF MatchAt(content, p).found
         THEN resolveExpression(MatchAt(content, p).expr, substitutions).value
              \o PositionalSubstitute(content, substitutions, MatchAt(content, p).last + 1)
         ELSE <<content[p]>> \o PositionalSubstitute(content, substitutions, p + 1)

\* C1: the content written for a template is the original content with each
\* {{ expr }} occurrence replaced by the value of its own expression; text that
\* a resolved value brings in is never replaced again.
C1_ReplacedAgainstOriginal ==
    \A k \in 1..Len(log) :
        log[k].op = "writeFile" =>
            log[k].content = PositionalSubstitute(fs[log[k].source].content, data, 1)

\* Whether the lookup of fallback k of the expression is not undefined.
Defined(expr, substitutions, k) ==
    get(substitutions, FallbackPath(Fallbacks(expr)[k])) # Undefined

AllMissing(expr, substitutions) ==
    \A k \in 1..Len(Fallbacks(expr)) : ~Defined(expr, substitutions, k)

\* C2: the first fallback, left to right, whose lookup is not undefined gives
\* the result (modified, then stringified), whether or not its value is falsy;
\* no later fallback and no default is used.
C2_FirstDefinedFallbackWins ==
    pc = "done" =>
        \A k \in 1..Len(Fallbacks(input)) :
            (Defined(input, data, k) /\ \A j \in 1..(k - 1) : ~Defined(input, data, j))
            => out = Ok(StringOf(applyModifiers(
                        get(data, FallbackPath(Fallbacks(input)[k])),
                        FallbackModifiers(Fallbacks(input)[k]))))

\* Whether the path leaves the data tree: a segment is not a member of the
\* mapping reached, or the value reached before a segment is not a mapping.
RECURSIVE LeavesTree(_, _)
LeavesTree(x, keys) ==
    /\ keys # <<>>
    /\ \/ x.t # "object"
       \/ \A k \in 1..Len(x.v) : x.v[k][1] # Head(keys)
       \/ LeavesTree(x.v[CHOOSE k \in 1..Len(x.v) : x.v[k][1] = Head(keys)][2], Tail(keys))

\* C3: when a segment of the path is missing, or the value reached before a
\* segment is not a mapping, get returns undefined.
C3_OnlyMappingsDescended ==
    pc = "done" => (LeavesTree(data, Split(input, ".")) => out = Undefined)

ResolutionErrors == {CouldNotBeResolved, MustResolveToScalar}

\* C4: the call in which an expression fails to resolve writes and copies no
\* file, and once a run has failed nothing more is read, copied or written.
C4_FailureWritesNothingAndStops ==
    [][/\ (out.ok /\ ~out'.ok /\ out'.kind \in ResolutionErrors)
            => /\ Files(fs') = Files(fs)
               /\ \A k \in (Len(log) + 1)..Len(log') : log'[k].op \notin {"writeFile", "copyFile"}
       /\ ~out.ok => (fs' = fs /\ log' = log)]_vars

\* A run that copied p, then failed on t.tmpl with t still to come: the earlier
\* output of t.tmpl is as it was, p is copied and t is not.
C4_Witness ==
    /\ pc = "exit1" /\ out.kind = CouldNotBeResolved
    /\ fs[<<"/", "s">>].entries = <<<<"p">>, <<"t", ".", "t", "m", "p", "l">>, <<"t">>>>
    /\ IsFile(fs, <<"/", "t", "/", "p">>) /\ IsFile(fs, <<"/", "t", "/", "t">>) /\ fs[<<"/", "t", "/", "t">>].content = Old
    /\ \E k \in 1..Len(log) : log[k].op = "readFile" /\ log[k].source = <<"/", "s", "/", "t", ".", "t", "m", "p", "l">>
    /\ \A k \in 1..Len(log) : log[k].source # <<"/", "s", "/", "t">>

\* C5: the default text is everything after the first = of the expression,
\* trimmed at both ends and otherwise verbatim; without = there is no default.
C5_DefaultIsTextAfterFirstEquals ==
    pc = "done" =>
        LET k == IndexOfChar(input, "=", 1)
            text == Trim(SubSeq(input, k + 1, Len(input)))
        IN  IF k = 0 THEN ~HasDefault(input)
            ELSE /\ HasDefault(input)
                 /\ DefaultValue(input) = text
                 /\ (AllMissing(input, data) /\ IndexOfChar(text, "@", 1) = 0)
                        => out = Ok(text)

\* The end of the @path@ token that starts at index p, 0 if none starts there.
TokenEnd(s, p) ==
    IF s[p] = "@" /\ IndexOfChar(s, "@", p + 1) >= p + 2
    THEN IndexOfChar(s, "@", p + 1) ELSE 0

\* The indices at which the tokens of s start, scanning left to right from p.
RECURSIVE TokenStarts(_, _)
TokenStarts(s, p) ==
    IF p > Len(s) THEN {}
    ELSE IF TokenEnd(s, p) # 0 THEN {p} \cup TokenStarts(s, TokenEnd(s, p) + 1)
    ELSE TokenStarts(s, p + 1)

TokenValue(s, substitutions, p) ==
    get(substitutions, Trim(SubSeq(s, p + 1, TokenEnd(s, p) - 1)))

\* s with the token at each index of starts replaced by the string form of its
\* value, everything else kept.
RECURSIVE WithTokens(_, _, _, _)
WithTokens(s, substitutions, starts, p) ==
    IF p > Len(s) THEN <<>>
    ELSE IF p \in starts
         THEN StringOf(TokenValue(s, substitutions, p))
              \o WithTokens(s, substitutions, starts, TokenEnd(s, p) + 1)
         ELSE <<s[p]>> \o WithTokens(s, substitutions, starts, p + 1)

\* C6: when no fallback resolves and there is a default text, the result is the
\* default text with each @path@ token replaced by the string form of its value
\* if every token's value is a string or a number; otherwise resolution fails.
C6_DefaultTokensReplacedOrFail ==
    (pc = "done" /\ AllMissing(input, data) /\ HasDefault(input)) =>
        LET text == DefaultValue(input)
            starts == TokenStarts(text, 1)
        IN  IF \A p \in starts : TokenValue(text, data, p).t \in {"string", "number"}
            THEN out = Ok(WithTokens(text, data, starts, 1))
            ELSE ~out.ok /\ out.kind = MustResolveToScalar

\* "m = d @ n @" on Config: a literal and a token whose value is the number 0.
C6_Witness ==
    /\ pc = "done" /\ data = Config
    /\ input = <<"m", " ", "=", " ", "d", " ", "@", " ", "n", " ", "@">>
    /\ out = Ok(<<"d", " ", "0">>)

\* C7: the 'could not be resolved' error is raised exactly when no fallback's
\* lookup is defined and the expression has no =, and it names the fallbacks'
\* paths joined by " | ".
C7_UnresolvedNamesPaths ==
    pc = "done" =>
        /\ (~out.ok /\ out.kind = CouldNotBeResolved)
              <=> (AllMissing(input, data) /\ IndexOfChar(input, "=", 1) = 0)
        /\ (~out.ok /\ out.kind = CouldNotBeResolved)
              => out.variable =
                    Join([k \in 1..Len(Fallbacks(input)) |-> FallbackPath(Fallbacks(input)[k])],
                         <<" ", "|", " ">>)

\* C8: a file is treated as a template exactly when its source name ends with
\* .tmpl; a template's target loses the suffix, and any other file is copied
\* unchanged to the target path as given.
C8_SuffixStrippedOnlyForTemplates ==
    \A k \in 1..Len(log) :
        log[k].op \in {"writeFile", "copyFile"} =>
            /\ log[k].op = "writeFile" <=> EndsWith(log[k].source, TMPL)
            /\ log[k].op = "writeFile" => log[k].path = FinalTargetPath(log[k].target)
            /\ log[k].op = "copyFile" =>
                  /\ log[k].path = log[k].target
                  /\ log[k].content = fs[log[k].source].content

\* C9: a json token serializes the current value with indentation 2, unless the
\* next token parses as an integer: then that integer is the indentation and
\* the token is skipped; a non-numeric next token is processed next.
C9_JsonTakesNumericIndent ==
    [][(pc = "modify" /\ i <= Len(modifiers) /\ modifiers[i] = JSON) =>
          IF i < Len(modifiers) /\ ~ParseInt(modifiers[i + 1]).nan
          THEN /\ result' = JSONstringify(result, ParseInt(modifiers[i + 1]).n)
               /\ i' = i + 2
          ELSE /\ result' = JSONstringify(result, 2)
               /\ i' = i + 1]_vars

\* json:4:upper on a mapping: after the first iteration the value is the JSON
\* text indented by 4 and the loop is at upper.
C9_Witness ==
    /\ pc = "modify" /\ input = User
    /\ modifiers = <<JSON, <<"4">>, UPPER>>
    /\ i = 3
    /\ result = Str(<<"{", "\n", " ", " ", " ", " ", "\"", "n", "\"", ":", " ", "\"", "A", "n", "n", "\"", ",", "\n", " ", " ", " ", " ", "\"", "k", "\"", ":", " ", "7", "\n", "}">>)

\* C10: every token other than json advances the loop by one; lower, upper, _
\* and - transform a textual value, and an unrecognized token or a non-textual
\* value leaves the value as it is.
C10_StringModifiersInOrder ==
    [][(pc = "modify" /\ i <= Len(modifiers) /\ modifiers[i] # JSON) =>
          /\ i' = i + 1
          /\ result' =
                IF result.t # "string" THEN result
                ELSE CASE modifiers[i] = LOWER -> Str(toLowerCase(result.v))
                       [] modifiers[i] = UPPER -> Str(toUpperCase(result.v))
                       [] modifiers[i] = <<"_">> -> Str(ReplaceChar(result.v, "-", "_"))
                       [] modifiers[i] = <<"-">> -> Str(ReplaceChar(result.v, "_", "-"))
                       [] OTHER -> result]_vars

\* lower:_ on "Foo-Bar" returns "foo_bar".
C10_Witness ==
    /\ pc = "done" /\ input = Str(<<"F", "o", "o", "-", "B", "a", "r">>)
    /\ modifiers = <<LOWER, <<"_">>>>
    /\ out = Str(<<"f", "o", "o", "_", "b", "a", "r">>)

=============================================================================
